---- MODULE Spec2Model ----
(***************************************************************************)
(* Model of the synchronous client of distributed-lock.com                 *)
(* (distributed_lock/sync.py, common.py, const.py, exception.py).          *)
(*                                                                         *)
(* The state is one client running one public entry point                  *)
(* (acquire_exclusive_lock, release_exclusive_lock or the exclusive_lock   *)
(* context manager) against a server whose answers and answer delays are   *)
(* chosen by the environment.  Time is counted in ticks, Scale ticks to    *)
(* the second, so that sub-second delays and the int() truncation of the   *)
(* retry engine are visible.  The clock is read from the instant the       *)
(* running call recorded as `before`: the wrapper only ever uses the       *)
(* difference utcnow() - before.                                           *)
(***************************************************************************)
EXTENDS Integers, Sequences, FiniteSets, TLC

\* ------------------------------------------------------------------ bounds

\* ticks per second
Scale == 2
\* largest `wait` (seconds) a caller passes
MaxWait == 3
\* largest `sleep_after_failure` (ticks) a caller passes
MaxSleep == 3
\* longest time (ticks) one HTTP exchange takes
MaxDur == 5

\* --------------------------------------------------------------- constants

DEFAULT_SERVER_SIDE_WAIT == 60
\* the default of `wait` in the signature of release_exclusive_lock
ReleaseDefaultWait == 10

\* Python's None and an optional value
None == <<>>
Some(x) == <<x>>

Min(a, b) == IF a <= b THEN a ELSE b
Max(a, b) == IF a >= b THEN a ELSE b

\* int(num / den) for den > 0: Python's int() truncates toward zero
IntTrunc(num, den) == IF num >= 0 THEN num \div den ELSE -((-num) \div den)

\* ------------------------------------------------------------- exceptions

\* an exception object: its class and its message
Exc(cls, msg) == [cls |-> cls, msg |-> msg]
NoExc == Exc("None", "")

\* class hierarchy of exception.py
DistributedLockError == {"DistributedLockError", "BadConfigurationError",
                         "NotReleasedError", "NotAcquiredError"}
DistributedLockException == {"DistributedLockException", "NotAcquiredException"}

\* the classes `except Exception` catches
PyException == DistributedLockError \cup DistributedLockException
               \cup {"JSONDecodeError", "KeyError"}

\* the outcome of a call: a returned value or a raised exception
Returned(v) == [tag |-> "return", exc |-> NoExc, value |-> v]
Raised(e) == [tag |-> "raise", exc |-> e, value |-> None]
NoResult == [tag |-> "none", exc |-> NoExc, value |-> None]

\* ------------------------------------------------------------ environment

RequiredFields == {"lock_id", "resource", "tenant_id", "created", "expires",
                   "user_agent", "user_data"}

\* a timestamp on the wire: ISO-8601 to the second, with the "Z" suffix
WireTime(iso) == [iso |-> iso, suffix |-> "Z"]

\* a complete lock record as the server writes it
LockRecord(l, r, t) ==
    [lock_id |-> l, resource |-> r, tenant_id |-> t, created |-> WireTime("2023-01-01T00:00:00"),
     expires |-> WireTime("2023-01-01T01:00:00"), user_agent |-> "foo/1.0", user_data |-> "data"]
Without(d, f) == [k \in (DOMAIN d) \ {f} |-> d[k]]

\* a response body: json says whether it decodes as JSON, d is the decoded dict
JsonBody(d) == [json |-> TRUE, d |-> d]
NotJson == [json |-> FALSE, d |-> <<>>]

FullRecords == {LockRecord("1234", "bar", "tenant_id"), LockRecord("5678", "baz", "other")}
IncompleteRecords == {Without(LockRecord("1234", "bar", "tenant_id"), f) : f \in RequiredFields}
MessageBodies == {JsonBody([message |-> "quota exceeded"]), NotJson}

TransportFailures == {"ConnectTimeout", "ReadTimeout", "WriteTimeout", "PoolTimeout",
                      "HTTPError"}
Statuses == {199, 204, 300, 409, 500}

Failure(kind) == [kind |-> kind, status |-> 0, body |-> NotJson]
Response(status, body) == [kind |-> "response", status |-> status, body |-> body]

\* everything one exchange with the service can produce
PostResponses ==
    {Failure(k) : k \in TransportFailures}
    \cup {Response(201, JsonBody(d)) : d \in FullRecords \cup IncompleteRecords}
    \cup {Response(200, JsonBody(d)) : d \in FullRecords}
    \cup {Response(s, NotJson) : s \in Statuses}
    \cup {Response(s, b) : s \in {403, 429}, b \in MessageBodies}
DeleteResponses ==
    {Failure(k) : k \in {"ReadTimeout", "HTTPError"}}
    \cup {Response(s, NotJson) : s \in Statuses}
    \cup {Response(s, b) : s \in {403, 429}, b \in MessageBodies}

\* whether the service has granted the lock when the exchange of a POST
\* produced r: it has when it answers 2xx with a record, it may have when the
\* request was sent and the answer was not read in time
Grants(r) ==
    IF r.kind = "response" /\ r.status >= 200 /\ r.status < 300 /\ r.body.json
    THEN {TRUE}
    ELSE IF r.kind = "ReadTimeout" THEN BOOLEAN
    ELSE {FALSE}

\* the lock_id of the lock granted: the one of the record, also when the
\* answer does not show it
GrantedLockId(r) ==
    IF r.kind = "response" /\ r.body.json /\ "lock_id" \in DOMAIN r.body.d
    THEN r.body.d.lock_id
    ELSE "1234"

\* how long one exchange takes (ticks): at once, a fraction of a second, long
Durations == {0, 1, MaxDur}

\* ------------------------------------------------------- common.py: codec

FieldOrder == <<"lock_id", "resource", "tenant_id", "created", "expires",
                "user_agent", "user_data">>

\* the first required field, in the order of the loop, that d lacks (0: none)
FirstMissing(d) ==
    LET missing == {i \in 1..Len(FieldOrder) : FieldOrder[i] \notin DOMAIN d}
    IN IF missing = {} THEN 0 ELSE CHOOSE i \in missing : \A j \in missing : i <= j

\* datetime.fromisoformat(s.replace("Z", "+00:00")): the wire string becomes
\* an aware datetime
FromIsoFormat(s) ==
    [iso |-> s.iso, tzinfo |-> IF s.suffix = "Z" THEN "+00:00" ELSE s.suffix]

\* from_dict with lock_id and resource exchanged
from_dict_swapped(d) ==
    IF FirstMissing(d) # 0
    THEN Raised(Exc("DistributedLockError",
                    "bad reply from service, missing " \o FieldOrder[FirstMissing(d)]))
    ELSE Returned(Some([k \in DOMAIN d |->
                          IF k \in {"created", "expires"} THEN FromIsoFormat(d[k])
                          ELSE IF k = "lock_id" THEN d.resource
                          ELSE IF k = "resource" THEN d.lock_id
                          ELSE d[k]]))

\* AcquiredRessource.from_dict
from_dict(d) ==
    IF FirstMissing(d) # 0
    THEN Raised(Exc("DistributedLockError",
                    "bad reply from service, missing " \o FieldOrder[FirstMissing(d)]))
    ELSE Returned(Some([k \in DOMAIN d |->
                          IF k \in {"created", "expires"} THEN FromIsoFormat(d[k])
                          ELSE d[k]]))

\* --------------------------------------------------- sync.py: one attempt

TransportMessage(kind) ==
    CASE kind = "ConnectTimeout" -> "timeout during connect"
      [] kind = "ReadTimeout" -> "timeout during read"
      [] kind = "WriteTimeout" -> "timeout during write"
      [] kind = "PoolTimeout" -> "timeout in connection pool"
      [] OTHER -> "generic http error"

\* r.json()['message'] inside the f-string of the 403 and 429 branches
JsonMessage(r) ==
    IF ~r.body.json THEN Raised(Exc("JSONDecodeError", ""))
    ELSE IF "message" \notin DOMAIN r.body.d THEN Raised(Exc("KeyError", "message"))
    ELSE Returned(Some(r.body.d.message))

\* try: raise error_class(prefix + message) / except Exception: raise
\* error_class(nodetail).  Whatever the try block raises, the error_class
\* instance it builds included, is an Exception and is caught by the handler.
RaiseWithMessage(r, error_class, prefix, nodetail) ==
    LET m == JsonMessage(r)
        tried == IF m.tag = "return" THEN Exc(error_class, prefix \o m.value[1])
                 ELSE m.exc
    IN IF tried.cls \in PyException THEN Raised(Exc(error_class, nodetail))
       ELSE Raised(tried)

\* _request letting a 429 through to its caller as if it were an answer
RequestRateLimitContinues(r, error_class, exception_class) ==
    IF r.kind # "response" THEN Raised(Exc(error_class, TransportMessage(r.kind)))
    ELSE IF r.status = 409 THEN Raised(Exc(exception_class, "got a HTTP/409 Conflict"))
    ELSE IF r.status = 403
      THEN RaiseWithMessage(r, error_class, "got a HTTP/403 Forbidden error with message: ",
                            "got an HTTP/403 Forbidden with no detail")
    ELSE IF r.status # 429 /\ (r.status < 200 \/ r.status >= 300)
      THEN Raised(Exc(error_class, "unexpected status code: " \o ToString(r.status)))
    ELSE Returned(Some(r))

\* DistributedLockClient._request, given what the exchange produced
Request(r, error_class, exception_class) ==
    IF r.kind # "response" THEN Raised(Exc(error_class, TransportMessage(r.kind)))
    ELSE IF r.status = 409 THEN Raised(Exc(exception_class, "got a HTTP/409 Conflict"))
    ELSE IF r.status = 403
      THEN RaiseWithMessage(r, error_class, "got a HTTP/403 Forbidden error with message: ",
                            "got an HTTP/403 Forbidden with no detail")
    ELSE IF r.status = 429
      THEN RaiseWithMessage(r, error_class, "got a HTTP/429 Rate limited error with message: ",
                            "got an HTTP/429 Forbidden with no detail")
    ELSE IF r.status < 200 \/ r.status >= 300
      THEN Raised(Exc(error_class, "unexpected status code: " \o ToString(r.status)))
    ELSE Returned(Some(r))

\* `a or b` on an optional number: None and 0 are falsy
Or(a, b) == IF a = None \/ a = Some(0) THEN b ELSE a[1]

\* the body built with the default ceiling instead of the client's
BodyWaitDefaultCeiling(server_side_wait, self_server_side_wait) ==
    Min(Or(server_side_wait, DEFAULT_SERVER_SIDE_WAIT), DEFAULT_SERVER_SIDE_WAIT)

\* the "wait" of the request body built by _acquire (seconds)
BodyWait(server_side_wait, self_server_side_wait) ==
    Min(Or(server_side_wait, self_server_side_wait), self_server_side_wait)

\* DistributedLockClient._acquire after the exchange produced r
Acquire(r) ==
    LET res == Request(r, "NotAcquiredError", "NotAcquiredException")
    IN IF res.tag = "raise" THEN res
       ELSE IF ~r.body.json THEN Raised(Exc("JSONDecodeError", ""))
       ELSE from_dict(r.body.d)

\* _release taking the 409 of a lock already gone for a release
ReleaseConflictReturns(r) ==
    LET res == Request(r, "NotReleasedError", "NotReleasedError")
    IN IF res.tag = "raise" /\ r.status # 409 THEN res ELSE Returned(None)

\* DistributedLockClient._release after the exchange produced r
Release(r) ==
    LET res == Request(r, "NotReleasedError", "NotReleasedError")
    IN IF res.tag = "raise" THEN res ELSE Returned(None)

\* ------------------------------------------------------------------ state

VARIABLES
    mode,                   \* the public entry point the caller uses
    self,                   \* the DistributedLockClient (its server_side_wait)
    kwargs,                 \* wait, automatic_retry, sleep_after_failure, lock_id
    pc,                     \* where the caller's thread stands
    call,                   \* the wrapped function the retry wrapper is running
    now,                    \* the clock (ticks), utcnow() - before
    elapsed,                \* wrapper: elapsed ticks measured after a failure
    forced_server_side_wait,\* wrapper: _forced_server_side_wait
    catched_exception,      \* wrapper: the failure of the current iteration
    attempts,               \* attempts made by the running call
    sleeps,                 \* sleeps made by the running call
    lastRequest,            \* the last request put on the wire
    lastResponse,           \* what the exchange of the last request produced
    seen,                   \* the kinds of attempt results seen so far
    nPost,                  \* POST requests sent so far
    nDelete,                \* DELETE requests sent so far
    calls,                  \* the wrapped calls made so far, in order
    result,                 \* how the last finished wrapped call ended
    ar,                     \* exclusive_lock: the acquired resource
    work,                   \* exclusive_lock: how the guarded work ended
    outcome,                \* how the entry point ended
    held                    \* the lock_ids of the locks held on the service

vars == <<mode, self, kwargs, pc, call, now, elapsed, forced_server_side_wait,
          catched_exception, attempts, sleeps, lastRequest, lastResponse, seen,
          nPost, nDelete, calls, result, ar, work, outcome, held>>

Modes == {"acquire_exclusive_lock", "release_exclusive_lock", "exclusive_lock"}
ServerSideWaits == {1, DEFAULT_SERVER_SIDE_WAIT}
NoRequest == [method |-> "none", wait |-> None, lock_id |-> "", at |-> 0, attempt |-> 0]

\* the sleep_after_failure keyword argument (ticks): the wrapper takes it as
\* it is given (line 42), zero included; exclusive_lock is called with the
\* default of one second
SleepsAfterFailure(m) == IF m = "exclusive_lock" THEN {Scale} ELSE 0..MaxSleep

\* the keyword arguments of a call that passes `wait`
KwargsWithWait(m) ==
    [wait : {Some(w) : w \in 0..MaxWait}, automatic_retry : BOOLEAN,
     sleep_after_failure : SleepsAfterFailure(m), lock_id : {"1234"}]

\* the keyword arguments of a call that does not pass `wait`: a
\* release_exclusive_lock whose sleep_after_failure is as long as the default
\* of its signature
KwargsWithoutWait(m) ==
    IF m = "release_exclusive_lock"
    THEN [wait : {None}, automatic_retry : BOOLEAN,
          sleep_after_failure : {ReleaseDefaultWait * Scale}, lock_id : {"1234"}]
    ELSE {}

\* the attempts followed within one call: one more than a call whose clock
\* advances by a tick per iteration can make before its deadline
AttemptCap == MaxWait * Scale + 2

\* the calls the caller makes: acquire_exclusive_lock with every keyword
\* argument of the bounded sets (with every client when sleep_after_failure is
\* positive), release_exclusive_lock and exclusive_lock with the default
\* client, exclusive_lock with the default sleep_after_failure of one second,
\* release_exclusive_lock also without `wait`
Init ==
    /\ mode \in Modes
    /\ kwargs \in KwargsWithWait(mode) \cup KwargsWithoutWait(mode)
    /\ self \in [server_side_wait : IF /\ mode = "acquire_exclusive_lock"
                                        /\ kwargs.sleep_after_failure > 0
                                     THEN ServerSideWaits
                                     ELSE {DEFAULT_SERVER_SIDE_WAIT}]
    /\ pc = "start"
    /\ call = "none"
    /\ now = 0
    /\ elapsed = 0
    /\ forced_server_side_wait = None
    /\ catched_exception = NoExc
    /\ attempts = 0
    /\ sleeps = 0
    /\ lastRequest = NoRequest
    /\ lastResponse = Failure("none")
    /\ seen = {}
    /\ nPost = 0
    /\ nDelete = 0
    /\ calls = <<>>
    /\ result = NoResult
    /\ ar = None
    /\ work = "none"
    /\ outcome = NoResult
    /\ held = IF mode = "release_exclusive_lock" THEN {kwargs.lock_id} ELSE {}

\* ------------------------------------------------- sync.py: retry wrapper

\* line 40: wait = kwargs.get("wait", DEFAULT_SERVER_SIDE_WAIT), the same
\* default for every wrapped function
WrapperWait ==
    IF kwargs.wait = None THEN DEFAULT_SERVER_SIDE_WAIT ELSE kwargs.wait[1]

\* the decorator's server_side_wait argument of the wrapped function
NegotiatesServerSideWait(func) == func = "acquire_exclusive_lock"

\* Handler without the `if not automatic_retry: raise` of line 52
HandlerAlwaysRetry(res, automatic_retry) ==
    IF res.tag = "return" THEN "return"
    ELSE IF res.exc.cls \in DistributedLockError THEN "catch"
    ELSE IF res.exc.cls \in DistributedLockException THEN "catch"
    ELSE "raise"

\* the try/except of the loop body: what the wrapper does with the result of
\* func: "return" it, "raise" at once, or "catch" it and go on to the deadline
Handler(res, automatic_retry) ==
    IF res.tag = "return" THEN "return"
    ELSE IF res.exc.cls \in DistributedLockError
      THEN IF ~automatic_retry THEN "raise" ELSE "catch"
    ELSE IF res.exc.cls \in DistributedLockException THEN "catch"
    ELSE "raise"

\* the deadline check without the backoff: elapsed > wait
DeadlineExceededNoBackoff(el, wait, sleep_after_failure) ==
    el > wait * Scale

\* the deadline check with >= for >
DeadlineExceededNonStrict(el, wait, sleep_after_failure) ==
    el >= wait * Scale - sleep_after_failure

\* elapsed > wait - sleep_after_failure (elapsed and sleep in ticks, wait in
\* seconds)
DeadlineExceeded(el, wait, sleep_after_failure) ==
    el > wait * Scale - sleep_after_failure

\* the first failure of the call is kept instead of the last
CatchKeepFirst(previous, e) == IF previous = NoExc THEN e ELSE previous

\* lines 46, 54, 56: catched_exception is cleared at the top of the
\* iteration, then set to the failure e of this iteration
Catch(previous, e) == e

\* how an attempt ended, for the record: with a value, with the contention
\* signal, or with an error
Kind(res) ==
    IF res.tag = "return" THEN "success"
    ELSE IF res.exc.cls \in DistributedLockException THEN "contention"
    ELSE "error"

\* the forced wait without the floor of one second
ForcedAfterSleepNoFloor(forced, server_side_wait, el, wait, sleep_after_failure, ssw) ==
    IF server_side_wait /\ el + sleep_after_failure + ssw * Scale > wait * Scale
    THEN Some(IntTrunc(wait * Scale - el - sleep_after_failure, Scale))
    ELSE forced

\* the _forced_server_side_wait after the sleep (seconds)
ForcedAfterSleep(forced, server_side_wait, el, wait, sleep_after_failure, ssw) ==
    IF server_side_wait /\ el + sleep_after_failure + ssw * Scale > wait * Scale
    THEN Some(Max(IntTrunc(wait * Scale - el - sleep_after_failure, Scale), 1))
    ELSE forced

\* the wrapped call returns or raises: control is back in its caller
CallEnds(res) ==
    /\ result' = res
    /\ IF mode = "exclusive_lock"
       THEN /\ pc' = IF call = "release_exclusive_lock" THEN "exit"
                     ELSE IF res.tag = "return" THEN "yield" ELSE "finally"
            /\ ar' = IF call = "acquire_exclusive_lock" /\ res.tag = "return"
                     THEN res.value ELSE ar
            /\ outcome' = outcome
       ELSE /\ pc' = "done"
            /\ ar' = ar
            /\ outcome' = res

\* lines 40-44: the wrapper is entered
WrapperBegin(func, lock_id) ==
    /\ call' = func
    /\ calls' = Append(calls, [func |-> func, lock_id |-> lock_id, work |-> work])
    /\ now' = 0
    /\ forced_server_side_wait' = None
    /\ catched_exception' = NoExc
    /\ elapsed' = 0
    /\ attempts' = 0
    /\ sleeps' = 0
    /\ pc' = "attempt"
    /\ UNCHANGED <<mode, self, kwargs, lastRequest, lastResponse, seen, nPost, nDelete,
                   result, ar, work, outcome, held>>

\* lines 45-59: one iteration of the loop up to the deadline check, func
\* having produced res d ticks after it was called
WrapperIteration(res, d) ==
    LET h == Handler(res, kwargs.automatic_retry)
        el == now + d
        caught == Catch(catched_exception, res.exc)
    IN /\ attempts' = attempts + 1
       /\ now' = now + d
       /\ seen' = seen \cup {Kind(res)}
       /\ IF h = "catch"
          THEN /\ catched_exception' = caught
               /\ elapsed' = el
               /\ IF DeadlineExceeded(el, WrapperWait, kwargs.sleep_after_failure)
                  THEN CallEnds(Raised(caught))
                  ELSE /\ pc' = "sleep"
                       /\ UNCHANGED <<result, ar, outcome>>
          ELSE /\ CallEnds(res)
               /\ catched_exception' = NoExc
               /\ elapsed' = elapsed

\* acquire_exclusive_lock(...) is called, directly or by exclusive_lock
AcquireCall ==
    /\ pc = "start"
    /\ mode \in {"acquire_exclusive_lock", "exclusive_lock"}
    /\ WrapperBegin("acquire_exclusive_lock", "")

\* the finally clause releases with the caller's lock_id, not the one of ar
ReleaseCallWrongId ==
    IF mode = "exclusive_lock"
    THEN /\ pc = "finally"
         /\ ar # None
         /\ WrapperBegin("release_exclusive_lock", kwargs.lock_id)
    ELSE /\ pc = "start"
         /\ mode = "release_exclusive_lock"
         /\ WrapperBegin("release_exclusive_lock", kwargs.lock_id)

\* the finally clause releases without the `if ar is not None` of line 349
ReleaseCallAlways ==
    IF mode = "exclusive_lock"
    THEN /\ pc = "finally"
         /\ WrapperBegin("release_exclusive_lock",
                         IF ar = None THEN "" ELSE ar[1].lock_id)
    ELSE /\ pc = "start"
         /\ mode = "release_exclusive_lock"
         /\ WrapperBegin("release_exclusive_lock", kwargs.lock_id)

\* release_exclusive_lock(...) is called, directly or by the finally clause
\* of exclusive_lock with the lock_id of ar
ReleaseCall ==
    IF mode = "exclusive_lock"
    THEN /\ pc = "finally"
         /\ ar # None
         /\ WrapperBegin("release_exclusive_lock", ar[1].lock_id)
    ELSE /\ pc = "start"
         /\ mode = "release_exclusive_lock"
         /\ WrapperBegin("release_exclusive_lock", kwargs.lock_id)

\* one attempt of acquire_exclusive_lock: _acquire sends the POST, the
\* service answers r after d ticks, the wrapper handles the result
AcquireAttempt ==
    /\ pc = "attempt"
    /\ call = "acquire_exclusive_lock"
    /\ attempts < AttemptCap
    /\ \E r \in PostResponses, d \in Durations :
         /\ lastRequest' = [method |-> "POST",
                            wait |-> Some(BodyWait(forced_server_side_wait,
                                                   self.server_side_wait)),
                            lock_id |-> "", at |-> now,
                            attempt |-> attempts + 1]
         /\ lastResponse' = r
         /\ nPost' = nPost + 1
         /\ \E g \in Grants(r) : held' = IF g THEN held \cup {GrantedLockId(r)} ELSE held
         /\ WrapperIteration(Acquire(r), d)
    /\ UNCHANGED <<mode, self, kwargs, call, forced_server_side_wait, sleeps,
                   nDelete, calls, work>>

\* one attempt of release_exclusive_lock
ReleaseAttempt ==
    /\ pc = "attempt"
    /\ call = "release_exclusive_lock"
    /\ attempts < AttemptCap
    /\ \E r \in DeleteResponses, d \in Durations :
         /\ lastRequest' = [method |-> "DELETE", wait |-> None,
                            lock_id |-> calls[Len(calls)].lock_id, at |-> now,
                            attempt |-> attempts + 1]
         /\ lastResponse' = r
         /\ nDelete' = nDelete + 1
         /\ held' = IF r.kind = "response" /\ r.status >= 200 /\ r.status < 300
                    THEN held \ {calls[Len(calls)].lock_id} ELSE held
         /\ WrapperIteration(Release(r), d)
    /\ UNCHANGED <<mode, self, kwargs, call, forced_server_side_wait, sleeps,
                   nPost, calls, work>>

\* a time.sleep that returns at once: the clock of the call stands still
SleepAfterFailureNoClock ==
    /\ pc = "sleep"
    /\ now' = now
    /\ sleeps' = sleeps + 1
    /\ forced_server_side_wait' =
         ForcedAfterSleep(forced_server_side_wait, NegotiatesServerSideWait(call),
                          elapsed, WrapperWait, kwargs.sleep_after_failure,
                          self.server_side_wait)
    /\ pc' = "attempt"
    /\ UNCHANGED <<mode, self, kwargs, call, elapsed, catched_exception, attempts,
                   lastRequest, lastResponse, seen, nPost, nDelete, calls,
                   result, ar, work, outcome, held>>

\* lines 60-66: time.sleep, then the forced server side wait of the next attempt
SleepAfterFailure ==
    /\ pc = "sleep"
    /\ now' = now + kwargs.sleep_after_failure
    /\ sleeps' = sleeps + 1
    /\ forced_server_side_wait' =
         ForcedAfterSleep(forced_server_side_wait, NegotiatesServerSideWait(call),
                          elapsed, WrapperWait, kwargs.sleep_after_failure,
                          self.server_side_wait)
    /\ pc' = "attempt"
    /\ UNCHANGED <<mode, self, kwargs, call, elapsed, catched_exception, attempts,
                   lastRequest, lastResponse, seen, nPost, nDelete, calls,
                   result, ar, work, outcome, held>>

\* ------------------------------------------------ sync.py: exclusive_lock

\* the with block: the guarded work runs at the yield and completes or raises
GuardedWork ==
    /\ pc = "yield"
    /\ \E w \in {"completed", "raised"} : work' = w
    /\ pc' = "finally"
    /\ UNCHANGED <<mode, self, kwargs, call, now, elapsed, forced_server_side_wait,
                   catched_exception, attempts, sleeps, lastRequest, lastResponse,
                   seen, nPost, nDelete, calls, result, ar, outcome, held>>

\* the failure of the release is dropped when the generator is left
ExclusiveLockExitSwallow ==
    /\ mode = "exclusive_lock"
    /\ IF ar = None THEN pc = "finally" ELSE pc = "exit"
    /\ outcome' = IF ar = None THEN result
                  ELSE IF work = "raised" THEN Raised(Exc("WorkError", ""))
                  ELSE Returned(None)
    /\ pc' = "done"
    /\ UNCHANGED <<mode, self, kwargs, call, now, elapsed,
                   forced_server_side_wait, catched_exception, attempts, sleeps,
                   lastRequest, lastResponse, seen, nPost, nDelete, calls,
                   result, ar, work, held>>

\* the generator is left: by the exception of the acquire (ar is None, nothing
\* to release), by the exception of the release, by the exception of the
\* guarded work, or normally
ExclusiveLockExit ==
    /\ mode = "exclusive_lock"
    /\ IF ar = None THEN pc = "finally" ELSE pc = "exit"
    /\ outcome' = IF result.tag = "raise" THEN result
                  ELSE IF work = "raised" THEN Raised(Exc("WorkError", ""))
                  ELSE Returned(None)
    /\ pc' = "done"
    /\ UNCHANGED <<mode, self, kwargs, call, now, elapsed,
                   forced_server_side_wait, catched_exception, attempts, sleeps,
                   lastRequest, lastResponse, seen, nPost, nDelete, calls,
                   result, ar, work, held>>

Next ==
    \/ AcquireCall
    \/ ReleaseCall
    \/ AcquireAttempt
    \/ ReleaseAttempt
    \/ SleepAfterFailure
    \/ GuardedWork
    \/ ExclusiveLockExit

Spec == Init /\ [][Next]_vars

\* ----------------------------------------------------------------- claims

\* the running (or last finished) wrapped call has ended
CallEnded == attempts >= 1 /\ pc \notin {"attempt", "sleep"}

\* what the wrapped function made of the last exchange of the call
LastAttempt ==
    IF call = "acquire_exclusive_lock" THEN Acquire(lastResponse)
    ELSE Release(lastResponse)

\* a 2xx response carrying a complete lock record
CompleteSuccess(r) ==
    /\ r.kind = "response"
    /\ r.status >= 200 /\ r.status < 300
    /\ r.body.json
    /\ RequiredFields \subseteq DOMAIN r.body.d

\* C1: when the first attempt of acquire_exclusive_lock is answered by a 2xx
\* with a complete lock record, the call has returned: one request was sent,
\* the engine did not sleep, and the handle carries the lock_id, resource and
\* tenant_id of the response.
C1_FirstSuccessReturns ==
    (call = "acquire_exclusive_lock" /\ attempts = 1 /\ CompleteSuccess(lastResponse))
    => /\ pc \in {"done", "yield", "finally"}
       /\ result.tag = "return"
       /\ nPost = 1
       /\ sleeps = 0
       /\ lastRequest.attempt = 1
       /\ result.value[1].lock_id = lastResponse.body.d.lock_id
       /\ result.value[1].resource = lastResponse.body.d.resource
       /\ result.value[1].tenant_id = lastResponse.body.d.tenant_id
       /\ (mode = "acquire_exclusive_lock" => outcome = result)

C1_Witness ==
    /\ mode = "acquire_exclusive_lock"
    /\ pc = "done"
    /\ attempts = 1
    /\ lastResponse.status = 201
    /\ outcome.tag = "return"
    /\ outcome.value[1].lock_id = "5678"

ReleaseCalls == {i \in 1..Len(calls) : calls[i].func = "release_exclusive_lock"}

\* C2: in exclusive_lock, release_exclusive_lock is called only after the
\* acquire has succeeded and the guarded work has ended (normally or by an
\* exception), with the lock_id of the acquired resource, and once the block
\* is left after a successful acquire it has been called exactly once; when
\* every exchange succeeded, exactly one POST and then exactly one DELETE
\* were sent.
C2_ReleasedExactlyOnce ==
    mode = "exclusive_lock" =>
      /\ Cardinality(ReleaseCalls) <= 1
      /\ \A i \in ReleaseCalls :
           /\ i = 2
           /\ ar # None
           /\ calls[i].lock_id = ar[1].lock_id
           /\ calls[i].work \in {"completed", "raised"}
           /\ calls[i].work = work
      /\ (nDelete > 0 => ReleaseCalls # {})
      /\ ((pc = "done" /\ ar # None) => ReleaseCalls # {})
      /\ ((pc = "done" /\ seen = {"success"})
            => /\ nPost = 1
               /\ nDelete = 1
               /\ lastRequest.method = "DELETE"
               /\ lastRequest.lock_id = ar[1].lock_id)

C2_Witness ==
    /\ mode = "exclusive_lock"
    /\ pc = "done"
    /\ work = "raised"
    /\ seen = {"success"}
    /\ nPost = 1
    /\ nDelete = 1
    /\ ar[1].lock_id = "5678"

\* C3: for every attempt of acquire_exclusive_lock, the time elapsed when the
\* attempt is sent plus the wait of its request body does not exceed the
\* caller's total wait.
C3_NoAttemptOvershoots ==
    lastRequest.method = "POST"
    => lastRequest.at + lastRequest.wait[1] * Scale <= WrapperWait * Scale

\* C4: when an acquire_exclusive_lock call has ended and server_side_wait plus
\* the time elapsed at its final attempt exceeds the total wait, the wait of
\* the final request body is strictly less than server_side_wait.
C4_FinalWaitBelowCeiling ==
    (call = "acquire_exclusive_lock" /\ CallEnded
       /\ self.server_side_wait * Scale + lastRequest.at > WrapperWait * Scale)
    => lastRequest.wait[1] < self.server_side_wait

\* acquire_exclusive_lock(wait=3, sleep_after_failure=1, automatic_retry=True)
\* against a resource that has answered every attempt with 409
C5_Scenario ==
    /\ mode = "acquire_exclusive_lock"
    /\ kwargs.automatic_retry
    /\ WrapperWait = 3
    /\ kwargs.sleep_after_failure = Scale
    /\ seen = {"contention"}

\* C5 as stated: the call makes more than one attempt and raises
\* NotAcquiredException when between 2 and 4 seconds have elapsed.
C5_Original ==
    (C5_Scenario /\ pc = "done")
    => /\ attempts > 1
       /\ outcome.tag = "raise"
       /\ outcome.exc.cls = "NotAcquiredException"
       /\ now >= 2 * Scale
       /\ now <= 4 * Scale

\* C5, amended: the call ends by raising NotAcquiredException, after more
\* than 2 seconds; its last attempt is sent at most 3 seconds after the start;
\* when the last answer arrives within a second of its request, more than one
\* attempt was made and at most 4 seconds have elapsed; a single attempt is
\* made only when the first answer takes more than 2 seconds.
C5_ContentionSurfaced ==
    C5_Scenario =>
      /\ outcome.tag # "return"
      /\ (pc = "done"
            => /\ outcome.tag = "raise"
               /\ outcome.exc.cls = "NotAcquiredException"
               /\ now > 2 * Scale
               /\ lastRequest.at <= 3 * Scale
               /\ (now - lastRequest.at <= Scale
                     => attempts > 1 /\ now <= 4 * Scale)
               /\ (attempts = 1 => lastRequest.at = 0 /\ now > 2 * Scale))

C5_Witness ==
    /\ C5_Scenario
    /\ pc = "done"
    /\ attempts = 4
    /\ now = 3 * Scale
    /\ outcome.exc.cls = "NotAcquiredException"

C7_NoRetryWithoutAutomaticRetry ==
    (~kwargs.automatic_retry /\ call = "acquire_exclusive_lock")
    => attempts <= 1 /\ sleeps = 0

\* C8: in exclusive_lock, when the acquire has raised, the guarded work has
\* not run, release_exclusive_lock is not called, no DELETE is sent, and the
\* block is left with the exception of the acquire.
C8_NoReleaseAfterFailedAcquire ==
    (mode = "exclusive_lock" /\ ar = None /\ calls # <<>>
       /\ ~(call = "acquire_exclusive_lock" /\ pc \in {"attempt", "sleep"}))
    => /\ call = "acquire_exclusive_lock"
       /\ result.tag = "raise"
       /\ work = "none"
       /\ Len(calls) = 1
       /\ nDelete = 0
       /\ pc \in {"finally", "done"}
       /\ (pc = "done" => outcome = result)

C8_Witness ==
    /\ mode = "exclusive_lock"
    /\ pc = "done"
    /\ ar = None
    /\ nDelete = 0
    /\ outcome.tag = "raise"
    /\ outcome.exc.cls = "NotAcquiredException"

\* C9: in exclusive_lock, when release_exclusive_lock has raised, the guarded
\* work has ended before, and the block is left with the NotReleasedError of
\* the release, whether the guarded work completed or raised.
C9_ReleaseFailurePropagates ==
    (mode = "exclusive_lock" /\ call = "release_exclusive_lock" /\ result.tag = "raise")
    => /\ work \in {"completed", "raised"}
       /\ result.exc.cls = "NotReleasedError"
       /\ pc \in {"exit", "done"}
       /\ (pc = "done" => outcome = result)

C9_Witness ==
    /\ mode = "exclusive_lock"
    /\ pc = "done"
    /\ work = "raised"
    /\ attempts > 1
    /\ outcome.tag = "raise"
    /\ outcome.exc.cls = "NotReleasedError"

\* C10: when a wrapped call has ended by raising, the exception raised is the
\* one the last attempt produced, whatever the earlier attempts produced.
C10_LastFailureSurfaced ==
    (CallEnded /\ result.tag = "raise")
    => /\ LastAttempt.tag = "raise"
       /\ result.exc = LastAttempt.exc

C10_Witness ==
    /\ mode = "acquire_exclusive_lock"
    /\ pc = "done"
    /\ attempts >= 2
    /\ "error" \in seen
    /\ outcome.tag = "raise"
    /\ outcome.exc.cls = "NotAcquiredException"

\* C11: with a positive sleep_after_failure every call ends after finitely
\* many attempts, even when every attempt fails: a call that has not ended
\* can always take its next step (an attempt that returns, a sleep that
\* returns), and as every retry comes after a sleep of at least one tick
\* inside the budget, the attempts of a call never exceed the ticks of wait
\* plus one; every step advancing the call, the call reaches its end.
C11_CallTerminates ==
    kwargs.sleep_after_failure > 0
    => /\ pc = "done" \/ ENABLED Next
       /\ attempts <= WrapperWait * Scale + 1

C11_Witness ==
    /\ mode = "acquire_exclusive_lock"
    /\ kwargs.sleep_after_failure = 1
    /\ WrapperWait = MaxWait
    /\ pc = "done"
    /\ attempts = WrapperWait * Scale + 1
    /\ "success" \notin seen
    /\ outcome.tag = "raise"

\* C12: a call made with sleep_after_failure <= 0 is rejected before its
\* retry loop runs, or runs it with a positive backoff: whenever such a call
\* is at a sleep, the sleep advances the clock of the call.
C12_BackoffAdvancesClock ==
    [][(kwargs.sleep_after_failure <= 0 /\ pc = "sleep") => now' > now]_vars

\* a 2xx response whose JSON body lacks a required field
IncompleteSuccess(r) ==
    /\ r.kind = "response"
    /\ r.status >= 200 /\ r.status < 300
    /\ r.body.json
    /\ ~(RequiredFields \subseteq DOMAIN r.body.d)

\* C13: when an attempt of acquire_exclusive_lock is answered by a 2xx whose
\* body lacks a required field, the call has ended on that attempt with the
\* decoding failure: the engine neither sleeps nor sends another request,
\* whatever automatic_retry and the budget left (here for the calls made
\* with a positive sleep_after_failure).
C13_MissingFieldNotRetried ==
    (/\ call = "acquire_exclusive_lock" /\ attempts >= 1
     /\ IncompleteSuccess(lastResponse)
     /\ kwargs.sleep_after_failure > 0)
    => /\ CallEnded
       /\ result.tag = "raise"
       /\ result.exc.cls = "DistributedLockError"

\* a 403 whose JSON body carries a message
ForbiddenWithMessage(r) ==
    /\ r.kind = "response"
    /\ r.status = 403
    /\ r.body.json
    /\ "message" \in DOMAIN r.body.d

\* C14: when an attempt is answered by a 403 whose body carries a message,
\* the error of the attempt carries that message; it is not the "no detail"
\* error.
C14_ForbiddenCarriesMessage ==
    (attempts >= 1 /\ ForbiddenWithMessage(lastResponse))
    => /\ LastAttempt.tag = "raise"
       /\ LastAttempt.exc.msg = "got a HTTP/403 Forbidden error with message: "
                                   \o lastResponse.body.d.message

\* C15: every POST of acquire_exclusive_lock carries a wait that does not
\* exceed the server_side_wait of the client, whatever forced wait the engine
\* holds when the request is sent; when it holds none, as at the first
\* attempt of a call, the wait is the server_side_wait of the client.
C15_BodyWaitCapped ==
    [][nPost' = nPost + 1
       => /\ lastRequest'.wait # None
          /\ lastRequest'.wait[1] <= self.server_side_wait
          /\ attempts = 0 => forced_server_side_wait = None
          /\ forced_server_side_wait = None
             => lastRequest'.wait[1] = self.server_side_wait]_vars

C15_Witness ==
    /\ lastRequest.method = "POST"
    /\ lastRequest.attempt >= 2
    /\ pc = "sleep"
    /\ self.server_side_wait = DEFAULT_SERVER_SIDE_WAIT
    /\ forced_server_side_wait # None
    /\ lastRequest.wait = forced_server_side_wait
    /\ lastRequest.wait[1] < self.server_side_wait

\* a response with a status in [200, 300)
Is2xx(r) == r.kind = "response" /\ r.status >= 200 /\ r.status < 300

\* an always-500 release with wait=3 and the default sleep_after_failure has
\* ended
C16_Scenario ==
    /\ mode = "release_exclusive_lock"
    /\ kwargs.automatic_retry
    /\ WrapperWait = 3
    /\ kwargs.sleep_after_failure = Scale
    /\ CallEnded
    /\ seen = {"error"}
    /\ lastResponse.kind = "response" /\ lastResponse.status = 500

\* C16 as stated: an always-500 release with wait=3 makes more than one
\* attempt and raises NotReleasedError.
C16_Original ==
    C16_Scenario
    => /\ attempts > 1
       /\ result.tag = "raise"
       /\ result.exc.cls = "NotReleasedError"

\* C16: an attempt of release_exclusive_lock answered by a 2xx ends the call
\* (one DELETE when it is the first); answered by a 409, another status
\* outside [200, 300) or a transport failure it fails with NotReleasedError,
\* which under automatic_retry is followed by a sleep and another attempt
\* unless elapsed > wait - sleep_after_failure, and is what the call raises.
\* An always-500 release makes more than one attempt unless its first answer
\* takes more than wait - sleep_after_failure.
C16_ReleaseClassified ==
    (call = "release_exclusive_lock" /\ attempts >= 1)
    => /\ Is2xx(lastResponse)
          => /\ CallEnded
             /\ result = Returned(None)
             /\ nDelete = attempts
       /\ ~Is2xx(lastResponse)
          => /\ LastAttempt.tag = "raise"
             /\ LastAttempt.exc.cls = "NotReleasedError"
             /\ (kwargs.automatic_retry /\ pc \notin {"attempt", "sleep"})
                => DeadlineExceeded(elapsed, WrapperWait, kwargs.sleep_after_failure)
             /\ pc \notin {"attempt", "sleep"}
                => /\ result.tag = "raise"
                   /\ result.exc.cls = "NotReleasedError"
       /\ C16_Scenario
          => /\ result.exc.cls = "NotReleasedError"
             /\ attempts = 1 => elapsed > (WrapperWait - 1) * Scale

C16_Witness ==
    /\ C16_Scenario
    /\ pc = "done"
    /\ attempts > 1
    /\ nDelete = attempts
    /\ outcome.tag = "raise"
    /\ outcome.exc.cls = "NotReleasedError"

\* the three classes of C17 for the exchange r and what _acquire made of it
IsSuccess(r, a) == Is2xx(r) /\ a.tag = "return" /\ a.value # None
IsContention(r, a) ==
    /\ r.kind = "response" /\ r.status = 409
    /\ a.tag = "raise" /\ a.exc.cls = "NotAcquiredException"
IsHardError(r, a) ==
    /\ r.kind # "response" \/ (~Is2xx(r) /\ r.status # 409)
    /\ a.tag = "raise" /\ a.exc.cls = "NotAcquiredError"

C18_StopIffDeadlineExceeded ==
    [][/\ (attempts' = attempts + 1 /\ catched_exception' # NoExc)
          => IF now' > WrapperWait * Scale - kwargs.sleep_after_failure
             THEN /\ pc' \notin {"sleep", "attempt"}
                  /\ result'.tag = "raise"
                  /\ sleeps' = sleeps
             ELSE /\ pc' = "sleep"
                  /\ result' = result
       /\ pc = "sleep"
          => /\ pc' = "attempt"
             /\ now' = now + kwargs.sleep_after_failure
             /\ sleeps' = sleeps + 1
             /\ attempts' = attempts]_vars

\* the second attempt was sent after the first failed with elapsed equal to
\* wait - sleep_after_failure
C18_Witness ==
    /\ kwargs.sleep_after_failure > 0
    /\ WrapperWait > 0
    /\ attempts = 2
    /\ sleeps = 1
    /\ lastRequest.attempt = 2
    /\ lastRequest.at = WrapperWait * Scale

\* the budget left after the sleep that starts at elapsed (ticks), and
\* whether the sleep computes a forced wait from it
BudgetAfterSleep == WrapperWait * Scale - elapsed - kwargs.sleep_after_failure
ForcedIsComputed ==
    elapsed + kwargs.sleep_after_failure + self.server_side_wait * Scale
      > WrapperWait * Scale

\* C19 as stated: the forced wait computed at a sleep of acquire is
\* max(wait - elapsed - sleep_after_failure, 1) (here for the calls made with
\* automatic_retry and a positive sleep_after_failure).
C19_Original ==
    [][(/\ pc = "sleep" /\ call = "acquire_exclusive_lock" /\ ForcedIsComputed
        /\ kwargs.automatic_retry /\ kwargs.sleep_after_failure > 0)
       => /\ forced_server_side_wait' # None
          /\ forced_server_side_wait'[1] * Scale = Max(BudgetAfterSleep, Scale)]_vars

\* C19: at a sleep of acquire_exclusive_lock, if elapsed (measured before the
\* sleep) + sleep_after_failure + server_side_wait > wait, the forced wait
\* becomes the whole seconds of max(wait - elapsed - sleep_after_failure, 1),
\* and otherwise it keeps its value; the next POST carries the forced wait
\* the engine holds.  In release_exclusive_lock no forced wait is ever
\* computed and the DELETE carries none.
C19_ForcedWaitAfterSleep ==
    [][/\ (pc = "sleep" /\ call = "acquire_exclusive_lock")
          => IF ForcedIsComputed
             THEN /\ forced_server_side_wait' # None
                  /\ forced_server_side_wait'[1] * Scale <= Max(BudgetAfterSleep, Scale)
                  /\ Max(BudgetAfterSleep, Scale) < (forced_server_side_wait'[1] + 1) * Scale
             ELSE forced_server_side_wait' = forced_server_side_wait
       /\ (nPost' = nPost + 1 /\ forced_server_side_wait # None)
          => lastRequest'.wait = forced_server_side_wait
       /\ call = "release_exclusive_lock"
          => /\ forced_server_side_wait' = None
             /\ nDelete' = nDelete + 1 => lastRequest'.wait = None]_vars

\* a POST was sent with a forced wait cut down to whole seconds
C19_Witness ==
    /\ call = "acquire_exclusive_lock"
    /\ pc = "sleep"
    /\ lastRequest.attempt = 2
    /\ forced_server_side_wait # None
    /\ lastRequest.wait = forced_server_side_wait
    /\ forced_server_side_wait[1] >= 2
    /\ \E el \in 0..(MaxWait * Scale) :
         /\ el + kwargs.sleep_after_failure = lastRequest.at
         /\ WrapperWait * Scale - lastRequest.at > forced_server_side_wait[1] * Scale

\* C20: the step after a sleep is never the end of the call: it leads to the
\* next attempt, which begins within the budget; a sleep is only started when
\* elapsed (measured after the failed attempt) + sleep_after_failure does not
\* exceed wait; and a call that has ended has made one attempt after each of
\* its sleeps.
C20_SleepThenAttempt ==
    [][/\ pc = "sleep" => (pc' = "attempt" /\ result' = result /\ outcome' = outcome)
       /\ pc' = "sleep"
          => /\ elapsed' + kwargs.sleep_after_failure <= WrapperWait * Scale
             /\ attempts' = sleeps' + 1
       /\ (pc' = "attempt" /\ sleeps' >= 1)
          => /\ now' <= WrapperWait * Scale
             /\ attempts' = sleeps'
       /\ (attempts' >= 1 /\ pc' \notin {"attempt", "sleep"})
          => attempts' = sleeps' + 1]_vars

\* a call has ended whose last attempt, the third, began at the very end of
\* the budget after two sleeps
C20_Witness ==
    /\ kwargs.sleep_after_failure > 0
    /\ pc = "done"
    /\ sleeps = 2
    /\ attempts = 3
    /\ lastRequest.attempt = 3
    /\ lastRequest.at = WrapperWait * Scale
    /\ outcome.tag = "raise"

\* C21: a call made with a positive sleep_after_failure never makes more
\* than floor(wait / sleep_after_failure) + 1 attempts, whatever the attempts
\* produce and however long they take, and has made at least one attempt
\* when it has ended, even with wait = 0 or wait < sleep_after_failure.
C21_AttemptsBounded ==
    (call # "none" /\ kwargs.sleep_after_failure > 0)
    => /\ attempts <= (WrapperWait * Scale) \div kwargs.sleep_after_failure + 1
       /\ pc \notin {"attempt", "sleep"} => attempts >= 1

\* a call has ended after exactly floor(wait / sleep_after_failure) + 1
\* attempts, wait not being a multiple of sleep_after_failure
C21_Witness ==
    /\ kwargs.sleep_after_failure > 0
    /\ (WrapperWait * Scale) % kwargs.sleep_after_failure # 0
    /\ pc = "done"
    /\ attempts >= 2
    /\ attempts = (WrapperWait * Scale) \div kwargs.sleep_after_failure + 1
    /\ outcome.tag = "raise"

\* C22: a release_exclusive_lock called without `wait` retries within the
\* 10 seconds of its signature: every DELETE of the call is sent at most 10
\* seconds after the call began.
C22_ReleaseDefaultBudget ==
    (/\ call = "release_exclusive_lock"
     /\ kwargs.wait = None
     /\ lastRequest.method = "DELETE")
    => lastRequest.at <= ReleaseDefaultWait * Scale

\* the lock_ids the caller holds a handle for when the acquire has ended
HandlesObtained ==
    IF result.tag = "return" /\ result.value # None
    THEN {result.value[1].lock_id} ELSE {}

\* C23: no lock is left on the service without the client knowing it: when
\* acquire_exclusive_lock has ended, every lock the service granted to its
\* attempts is the one of the handle returned; when exclusive_lock has ended
\* without a handle, or with a release that succeeded, the service holds no
\* lock (here for the calls made with automatic_retry and a positive
\* sleep_after_failure).
C23_NoOrphanedLock ==
    (kwargs.automatic_retry /\ kwargs.sleep_after_failure > 0 /\ pc = "done")
    => /\ mode = "acquire_exclusive_lock" => held \subseteq HandlesObtained
       /\ (mode = "exclusive_lock" /\ ar = None) => held = {}
       /\ (/\ mode = "exclusive_lock"
           /\ call = "release_exclusive_lock"
           /\ result.tag = "return")
          => held = {}

====
